---- MODULE Spec2Model ----
(***************************************************************************)
(* Model of wii-usb.ino: an Arduino sketch that polls a Wii extension      *)
(* controller over I2C, decodes its packed 6-byte report and forwards it   *)
(* as a USB HID gamepad report.                                            *)
(*                                                                         *)
(* The sketch is single threaded: setup() runs once, then loop() forever.  *)
(* The position of that one thread is the variable pc.  The I2C bus (Wire) *)
(* and the HID report writer (Gamepad) are the environment: the status of  *)
(* every bus write, the number of bytes a read request makes available,    *)
(* the bytes read and the time a cycle takes are inputs.                   *)
(***************************************************************************)
EXTENDS Integers, Sequences, FiniteSets, TLC

(***************************************************************************)
(* Bounds of the model.                                                    *)
(***************************************************************************)
\* number of executions of loop() that are explored
MaxCycles == 3

(***************************************************************************)
(* Program constants (wii-usb.ino:31-53).                                  *)
(***************************************************************************)
POLL_INTERVAL_MS == 16
I2C_ADDRESS == 82
INIT_DATA_1 == <<240, 85>>
INIT_DATA_2 == <<251, 0>>
ID_ADDRESS == 250
ID_LEN == 6
DATA_ADDRESS == 0
DATA_LEN == 6
VALID_ID_1 == <<0, 0, 164, 32, 1, 1>>
VALID_ID_2 == <<1, 0, 164, 32, 1, 1>>

\* dpad values of the Gamepad API, as used by DPAD_MAPPINGS
GAMEPAD_DPAD_CENTERED == 0
GAMEPAD_DPAD_UP == 1
GAMEPAD_DPAD_UP_RIGHT == 2
GAMEPAD_DPAD_RIGHT == 3
GAMEPAD_DPAD_DOWN_RIGHT == 4
GAMEPAD_DPAD_DOWN == 5
GAMEPAD_DPAD_DOWN_LEFT == 6
GAMEPAD_DPAD_LEFT == 7
GAMEPAD_DPAD_UP_LEFT == 8

\* DPAD_MAPPINGS[i] of the source is DPAD_MAPPINGS[i + 1] here
DPAD_MAPPINGS ==
  << GAMEPAD_DPAD_CENTERED,   \* 0000 = none
     GAMEPAD_DPAD_DOWN,       \* 0001 = down
     GAMEPAD_DPAD_RIGHT,      \* 0010 = right
     GAMEPAD_DPAD_DOWN_RIGHT, \* 0011 = down+right
     GAMEPAD_DPAD_UP,         \* 0100 = up
     GAMEPAD_DPAD_DOWN,       \* 0101 = down+up = invalid
     GAMEPAD_DPAD_UP_RIGHT,   \* 0110 = right+up
     GAMEPAD_DPAD_RIGHT,      \* 0111 = right+up+down = invalid
     GAMEPAD_DPAD_LEFT,       \* 1000 = left
     GAMEPAD_DPAD_DOWN_LEFT,  \* 1001 = down+left
     GAMEPAD_DPAD_RIGHT,      \* 1010 = right+left = invalid
     GAMEPAD_DPAD_DOWN,       \* 1011 = right+left+down = invalid
     GAMEPAD_DPAD_UP_LEFT,    \* 1100 = up+left
     GAMEPAD_DPAD_LEFT,       \* 1101 = down+up+left = invalid
     GAMEPAD_DPAD_UP,         \* 1110 = right+up+left = invalid
     GAMEPAD_DPAD_CENTERED >> \* 1111 = all buttons = invalid

\* enum ButtonMappings
BUTTON_A == 1
BUTTON_B == 2
BUTTON_X == 3
BUTTON_Y == 4
BUTTON_PLUS == 5
BUTTON_HOME == 6
BUTTON_MINUS == 7
BUTTON_LEFT_TRIGGER == 8
BUTTON_RIGHT_TRIGGER == 9
BUTTON_ZL == 10
BUTTON_ZR == 11

(***************************************************************************)
(* Machine arithmetic.                                                     *)
(***************************************************************************)
\* bits lo .. lo+width-1 of byte b: a bit-field of `width` bits allocated
\* from the least significant bit upwards (avr-gcc's layout of ControllerData)
BitField(b, lo, width) == (b \div (2 ^ lo)) % (2 ^ width)

\* a << k on int operands, before any narrowing
Shl(a, k) == a * (2 ^ k)

\* a | b on non-negative operands, bit by bit
RECURSIVE BitOr(_, _)
BitOr(a, b) ==
  IF a = 0 THEN b
  ELSE IF b = 0 THEN a
  ELSE (IF a % 2 = 1 \/ b % 2 = 1 THEN 1 ELSE 0) + 2 * BitOr(a \div 2, b \div 2)

\* conversion to byte (uint8_t)
ToByte(x) == x % 256

\* conversion to int8_t: two's complement, 8 bits
ToInt8(x) == LET m == x % 256 IN IF m >= 128 THEN m - 256 ELSE m

\* conversion to int16_t: two's complement, 16 bits
ToInt16(x) == LET m == x % 65536 IN IF m >= 32768 THEN m - 65536 ELSE m

\* unsigned long is 32 bits wide; a value is held as <<high half, low half>>,
\* two 16-bit halves, and the arithmetic is modulo 2^32
ULong(n) == << (n \div 65536) % 65536, n % 65536 >>

\* a + b modulo 2^32
AddULong(a, b) ==
  LET lo == a[2] + b[2]
  IN  << (a[1] + b[1] + (lo \div 65536)) % 65536, lo % 65536 >>

\* a subtraction that drops the borrow out of the low half
SubULong_noBorrow(a, b) ==
  << (a[1] - b[1]) % 65536, (a[2] - b[2]) % 65536 >>

\* a - b modulo 2^32
SubULong(a, b) ==
  LET lo == a[2] - b[2]
      borrow == IF lo < 0 THEN 1 ELSE 0
  IN  << (a[1] - b[1] - borrow) % 65536, lo % 65536 >>

\* a < b on unsigned long
LessULong(a, b) == a[1] < b[1] \/ (a[1] = b[1] /\ a[2] < b[2])

(***************************************************************************)
(* struct ControllerData: a report is the sequence of the 6 bytes read,    *)
(* d[1] being the first byte.                                              *)
(***************************************************************************)
left_stick_x(d) == BitField(d[1], 0, 6)
right_stick_x1(d) == BitField(d[1], 6, 2)

left_stick_y(d) == BitField(d[2], 0, 6)
right_stick_x2(d) == BitField(d[2], 6, 2)

right_stick_y(d) == BitField(d[3], 0, 5)
left_trigger1(d) == BitField(d[3], 5, 2)
right_stick_x3(d) == BitField(d[3], 7, 1)

\* a right_trigger field that is six bits wide
right_trigger_6bits(d) == BitField(d[4], 0, 6)

right_trigger(d) == BitField(d[4], 0, 5)
left_trigger2(d) == BitField(d[4], 5, 3)

dummy(d) == BitField(d[5], 0, 1)
button_right_trigger(d) == BitField(d[5], 1, 1)
button_plus(d) == BitField(d[5], 2, 1)
button_home(d) == BitField(d[5], 3, 1)
button_minus(d) == BitField(d[5], 4, 1)
button_left_trigger(d) == BitField(d[5], 5, 1)
button_down(d) == BitField(d[5], 6, 1)
button_right(d) == BitField(d[5], 7, 1)

button_up(d) == BitField(d[6], 0, 1)
button_left(d) == BitField(d[6], 1, 1)
button_zr(d) == BitField(d[6], 2, 1)
\* a button_x declared one bit too high, on the bit of button_a
button_x_bit4(d) == BitField(d[6], 4, 1)
button_x(d) == BitField(d[6], 3, 1)
button_a(d) == BitField(d[6], 4, 1)
button_y(d) == BitField(d[6], 5, 1)
button_b(d) == BitField(d[6], 6, 1)
button_zl(d) == BitField(d[6], 7, 1)

\* a variant of getRightStickX whose middle fragment is shifted one too far
getRightStickX_shift2(d) ==
  ToByte(BitOr(BitOr(Shl(right_stick_x1(d), 3), Shl(right_stick_x2(d), 2)),
               right_stick_x3(d)))

\* right stick x axis is stored in non-contiguous bits
getRightStickX(d) ==
  ToByte(BitOr(BitOr(Shl(right_stick_x1(d), 3), Shl(right_stick_x2(d), 1)),
               right_stick_x3(d)))

\* a variant of getLeftTrigger that treats the 3-bit fragment as the high one
getLeftTrigger_swapped(d) ==
  ToByte(BitOr(Shl(left_trigger2(d), 2), left_trigger1(d)))

\* left trigger axis is stored in non-contiguous bits
getLeftTrigger(d) ==
  ToByte(BitOr(Shl(left_trigger1(d), 3), left_trigger2(d)))

\* a variant of dpad_index with the up and left bits exchanged
dpad_index_swapped(d) ==
  LET down_bit == IF button_down(d) = 0 THEN 1 ELSE 0
      right_bit == Shl(IF button_right(d) = 0 THEN 1 ELSE 0, 1)
      up_bit == Shl(IF button_up(d) = 0 THEN 1 ELSE 0, 3)
      left_bit == Shl(IF button_left(d) = 0 THEN 1 ELSE 0, 2)
  IN  ToByte(BitOr(BitOr(down_bit, right_bit), BitOr(up_bit, left_bit)))

\* the index into DPAD_MAPPINGS that getDpadValue computes
dpad_index(d) ==
  LET down_bit == IF button_down(d) = 0 THEN 1 ELSE 0
      right_bit == Shl(IF button_right(d) = 0 THEN 1 ELSE 0, 1)
      up_bit == Shl(IF button_up(d) = 0 THEN 1 ELSE 0, 2)
      left_bit == Shl(IF button_left(d) = 0 THEN 1 ELSE 0, 3)
  IN  ToByte(BitOr(BitOr(down_bit, right_bit), BitOr(up_bit, left_bit)))

\* a getDpadValue that centres the dpad on every invalid combination
getDpadValue_centerInvalid(d) ==
  IF dpad_index(d) \in {5, 7, 10, 11, 13, 14, 15}
    THEN GAMEPAD_DPAD_CENTERED
    ELSE DPAD_MAPPINGS[dpad_index(d) + 1]

\* return a Dpad enum value for the Gamepad API
getDpadValue(d) == DPAD_MAPPINGS[dpad_index(d) + 1]

(***************************************************************************)
(* The Gamepad object of the HID library: one report that the press and    *)
(* axis calls change in place and write() sends.  buttons is the set of    *)
(* the button numbers whose bit is set in the report's button mask.        *)
(***************************************************************************)
GamepadZero ==
  [ buttons |-> {}, dPad1 |-> 0,
    xAxis |-> 0, yAxis |-> 0, rxAxis |-> 0, ryAxis |-> 0,
    zAxis |-> 0, rzAxis |-> 0 ]

\* a releaseAll that leaves the report as it is
releaseAll_keep(g) == g

\* Gamepad.releaseAll(): clears the whole report
releaseAll(g) == GamepadZero

\* Gamepad.press(b): sets bit b-1 of the button mask
press(g, b) == [g EXCEPT !.buttons = @ \cup {b}]

\* Gamepad.dPad1(v)
dPad1(g, v) == [g EXCEPT !.dPad1 = v]

\* Gamepad.xAxis(a) etc.: the 16-bit axes take an int16_t, the 8-bit ones an int8_t
xAxis(g, a) == [g EXCEPT !.xAxis = ToInt16(a)]
yAxis(g, a) == [g EXCEPT !.yAxis = ToInt16(a)]
rxAxis(g, a) == [g EXCEPT !.rxAxis = ToInt16(a)]
ryAxis(g, a) == [g EXCEPT !.ryAxis = ToInt16(a)]
zAxis(g, a) == [g EXCEPT !.zAxis = ToInt8(a)]
rzAxis(g, a) == [g EXCEPT !.rzAxis = ToInt8(a)]

\* the 11 conditional Gamepad.press calls of updateGamepad, in source order
pressButtons(g, d) ==
  LET g1 == IF button_right_trigger(d) = 0 THEN press(g, BUTTON_RIGHT_TRIGGER) ELSE g
      g2 == IF button_plus(d) = 0 THEN press(g1, BUTTON_PLUS) ELSE g1
      g3 == IF button_home(d) = 0 THEN press(g2, BUTTON_HOME) ELSE g2
      g4 == IF button_minus(d) = 0 THEN press(g3, BUTTON_MINUS) ELSE g3
      g5 == IF button_left_trigger(d) = 0 THEN press(g4, BUTTON_LEFT_TRIGGER) ELSE g4
      g6 == IF button_zr(d) = 0 THEN press(g5, BUTTON_ZR) ELSE g5
      g7 == IF button_x(d) = 0 THEN press(g6, BUTTON_X) ELSE g6
      g8 == IF button_a(d) = 0 THEN press(g7, BUTTON_A) ELSE g7
      g9 == IF button_y(d) = 0 THEN press(g8, BUTTON_Y) ELSE g8
      g10 == IF button_b(d) = 0 THEN press(g9, BUTTON_B) ELSE g9
      g11 == IF button_zl(d) = 0 THEN press(g10, BUTTON_ZL) ELSE g10
  IN  g11

\* a left-stick scaling that shifts one bit too far
scaleLeftStick_shl11(v) == ToInt16(Shl(ToInt16(v) - 32, 11))

\* (int16_t(v) - 32) << 10, an int of 16 bits
scaleLeftStick(v) == ToInt16(Shl(ToInt16(v) - 32, 10))

\* (int16_t(v) - 16) << 11
scaleRightStick(v) == ToInt16(Shl(ToInt16(v) - 16, 11))

\* int8_t(v) << 2
scaleTrigger(v) == ToInt16(Shl(ToInt8(v), 2))

\* the six axis calls of updateGamepad
setAxes(g, d) ==
  LET g1 == xAxis(g, scaleLeftStick(left_stick_x(d)))
      g2 == yAxis(g1, scaleLeftStick(left_stick_y(d)))
      g3 == rxAxis(g2, scaleRightStick(getRightStickX(d)))
      g4 == ryAxis(g3, scaleRightStick(right_stick_y(d)))
      g5 == zAxis(g4, scaleTrigger(getLeftTrigger(d)))
      g6 == rzAxis(g5, scaleTrigger(right_trigger(d)))
  IN  g6

\* updateGamepad(data) on the Gamepad report g
updateGamepad(g, d) ==
  setAxes(pressButtons(dPad1(releaseAll(g), getDpadValue(d)), d), d)

(***************************************************************************)
(* Inputs of the environment.                                              *)
(***************************************************************************)
\* status codes of Wire.endTransmission(): 0 is success, the others are
\* transport errors (data too long, NACK on address, NACK on data, other)
Status == 0 .. 4

\* reports the controller may deliver in the system specification
NoneReport == <<160, 32, 16, 0, 255, 255>>   \* nothing pressed, sticks centred
AllReport == <<255, 255, 255, 255, 193, 3>>  \* the 11 buttons pressed, dpad idle
AUpReport == <<0, 0, 0, 0, 255, 238>>        \* A and dpad up
MixReport == <<91, 130, 165, 77, 175, 119>>  \* -, down, X, ZL and analog values
ZeroBytes == <<0, 0, 0, 0, 0, 0>>            \* every active-low bit asserted
Reports == {NoneReport, AllReport, AUpReport, MixReport, ZeroBytes}

\* identification blocks the controller may deliver
IdBlocks == {VALID_ID_1, VALID_ID_2, <<255, 255, 255, 255, 255, 255>>}

\* values of millis() at the start of a cycle: 1000, and 2^32 - 5, just before
\* the counter wraps
StartTimes == {<<0, 1000>>, <<65535, 65531>>}

\* milliseconds a cycle may take up to the second millis() call
Elapsed == {2, 15, 16, 40}

\* number of bytes Wire.available() reports after a request of len bytes
AvailAfterRequest(len) == {0, len}

\* value of a local that holds nothing (before its declaration, after its scope)
NoBytes == <<>>

(***************************************************************************)
(* State.                                                                  *)
(***************************************************************************)
VARIABLES
  pc,       \* position of the sketch's single thread
  gamepad,  \* the report held by the Gamepad object
  usb,      \* the reports handed to the USB host, the last two of them
  bus,      \* the I2C transactions issued so far, in order
  avail,    \* Wire.available()
  id,       \* getControllerId's local id
  data,     \* loop's local data
  err,      \* loop's local err
  start,    \* loop's local start
  led,      \* LED_BUILTIN
  slept,    \* the argument of the last delay() that paced a cycle, 0 for none
  cycle,    \* executions of loop() begun so far
  writes,   \* Gamepad.write() calls in the current execution of loop()
  updates,  \* updateGamepad() calls in the current execution of loop()
  fails,    \* consecutive executions of loop() whose read failed, up to now
  err1,     \* initController's local err1
  err2,     \* initController's local err2
  werr,     \* the status Wire.endTransmission() returned to the function running
  reads,    \* Wire.readBytes() calls of the function running
  took      \* the cycle paced last: millis() at its start, the time it took

vars == << pc, gamepad, usb, bus, avail, id, data, err, start, led, slept,
           cycle, writes, updates, fails, err1, err2, werr, reads, took >>

\* one I2C write transaction to the controller
WriteTx(bytes) == [op |-> "write", addr |-> I2C_ADDRESS, bytes |-> bytes]

\* one I2C read request to the controller
RequestTx(len) == [op |-> "request", addr |-> I2C_ADDRESS, len |-> len]

\* an i2cRead that requests the bytes whatever the pointer write returned
i2cReadTx_always(address, len, st) ==
  << WriteTx(<<address>>), RequestTx(len) >>

\* the transactions of i2cRead(address, len, result) when the write of the
\* register pointer returns st: the read is requested only after a successful
\* write
i2cReadTx(address, len, st) ==
  IF st # 0
    THEN << WriteTx(<<address>>) >>
    ELSE << WriteTx(<<address>>), RequestTx(len) >>

\* a getControllerData that initializes the controller again after a failed cycle
getControllerDataTx_reset(st) ==
  (IF fails > 0 THEN << WriteTx(INIT_DATA_1), WriteTx(INIT_DATA_2) >> ELSE << >>)
    \o i2cReadTx(DATA_ADDRESS, DATA_LEN, st)

\* a getControllerData that tries the read a second time after a failure
getControllerDataTx_retry(st) ==
  IF st # 0
    THEN i2cReadTx(DATA_ADDRESS, DATA_LEN, st)
           \o i2cReadTx(DATA_ADDRESS, DATA_LEN, st)
    ELSE i2cReadTx(DATA_ADDRESS, DATA_LEN, st)

\* the transactions of getControllerData(data)
getControllerDataTx(st) == i2cReadTx(DATA_ADDRESS, DATA_LEN, st)

\* the last two elements of a sequence
LastTwo(s) == IF Len(s) <= 2 THEN s ELSE SubSeq(s, Len(s) - 1, Len(s))

\* the state at power-on: statics are zero, no local exists
Init ==
  /\ pc = "setup"
  /\ gamepad = GamepadZero
  /\ usb = <<>>
  /\ bus = <<>>
  /\ avail = 0
  /\ id = NoBytes
  /\ data = NoBytes
  /\ err = 0
  /\ start = ULong(0)
  /\ led = FALSE
  /\ slept = ULong(0)
  /\ cycle = 0
  /\ writes = 0
  /\ updates = 0
  /\ fails = 0
  /\ err1 = 0
  /\ err2 = 0
  /\ werr = 0
  /\ reads = 0
  /\ took = [start |-> ULong(0), ms |-> 0]

(***************************************************************************)
(* setup()                                                                 *)
(***************************************************************************)
\* setup() up to initController(): Gamepad.begin() sends a cleared report,
\* Gamepad.releaseAll() clears it again
SetupBegin ==
  /\ pc = "setup"
  /\ gamepad' = releaseAll(GamepadZero)
  /\ usb' = LastTwo(Append(usb, GamepadZero))
  /\ pc' = "init1"
  /\ UNCHANGED << bus, avail, id, data, err, start, led, slept, cycle, writes,
                  updates, fails, err1, err2, werr,
                  reads, took >>

\* initController(): i2cWrite(INIT_DATA_1)
InitWrite1 ==
  /\ pc = "init1"
  /\ \E st \in Status :
       /\ bus' = Append(bus, WriteTx(INIT_DATA_1))
       /\ werr' = st
       /\ err1' = st
       /\ pc' = "init2"
  /\ UNCHANGED << gamepad, usb, avail, id, data, err, start, led, slept, cycle,
                  writes, updates, fails, err2, reads, took >>

\* an initController that gives up after a failed first write
InitWrite2_ifFirstOk ==
  /\ pc = "init2"
  /\ \E st \in Status :
       /\ bus' = IF err1 = 0 THEN Append(bus, WriteTx(INIT_DATA_2)) ELSE bus
       /\ werr' = IF err1 = 0 THEN st ELSE err1
       /\ err2' = IF err1 = 0 THEN st ELSE err1
       /\ pc' = "init_print"
  /\ UNCHANGED << gamepad, usb, avail, id, data, err, start, led, slept, cycle,
                  writes, updates, fails, err1, reads, took >>

\* initController(): i2cWrite(INIT_DATA_2)
InitWrite2 ==
  /\ pc = "init2"
  /\ \E st \in Status :
       /\ bus' = Append(bus, WriteTx(INIT_DATA_2))
       /\ werr' = st
       /\ err2' = st
       /\ pc' = "init_print"
  /\ UNCHANGED << gamepad, usb, avail, id, data, err, start, led, slept, cycle,
                  writes, updates, fails, err1, reads, took >>

\* initController(): err1 and err2 are printed and nothing else is done with
\* them; initController returns
InitPrint ==
  /\ pc = "init_print"
  /\ err1' = 0
  /\ err2' = 0
  /\ werr' = 0
  /\ pc' = "id_ptr"
  /\ UNCHANGED << gamepad, usb, bus, avail, id, data, err, start, led, slept,
                  cycle, writes, updates, fails, reads, took >>

\* getControllerId(): i2cRead(ID_ADDRESS, ID_LEN, id) up to the request.  When
\* the pointer write fails i2cRead returns at once and id stays uninitialized:
\* the print loop then reads whatever the stack holds
IdPointerWrite ==
  /\ pc = "id_ptr"
  /\ \E st \in Status :
       /\ bus' = bus \o i2cReadTx(ID_ADDRESS, ID_LEN, st)
       /\ werr' = st
       /\ reads' = 0
       /\ IF st # 0
            THEN /\ \E garbage \in IdBlocks : id' = garbage
                 /\ pc' = "id_print"
                 /\ UNCHANGED avail
            ELSE /\ \E n \in AvailAfterRequest(ID_LEN) : avail' = n
                 /\ pc' = "id_wait"
                 /\ UNCHANGED id
  /\ UNCHANGED << gamepad, usb, data, err, start, led, slept, cycle, writes,
                  updates, fails, err1, err2, took >>

\* i2cRead: while (Wire.available() < len) delay(1);
IdWait ==
  /\ pc = "id_wait"
  /\ avail < ID_LEN
  /\ UNCHANGED vars

\* i2cRead: Wire.readBytes(result, len); return 0;
IdReadBytes ==
  /\ pc = "id_wait"
  /\ avail >= ID_LEN
  /\ \E block \in IdBlocks : id' = block
  /\ avail' = avail - ID_LEN
  /\ reads' = reads + 1
  /\ pc' = "id_print"
  /\ UNCHANGED << gamepad, usb, bus, data, err, start, led, slept, cycle,
                  writes, updates, fails, err1, err2, werr, took >>

\* a getControllerId() that returns only for a known identification block
IdPrint_gated ==
  /\ pc = "id_print"
  /\ id \in {VALID_ID_1, VALID_ID_2}
  /\ id' = NoBytes
  /\ werr' = 0
  /\ reads' = 0
  /\ pc' = "loop"
  /\ UNCHANGED << gamepad, usb, bus, avail, data, err, start, led, slept, cycle,
                  writes, updates, fails, err1, err2,
                  took >>

\* a getControllerId() that reports an unknown controller to the host by
\* pressing the home button
IdPrint_flag ==
  /\ pc = "id_print"
  /\ gamepad' = IF id \in {VALID_ID_1, VALID_ID_2}
                  THEN gamepad
                  ELSE press(gamepad, BUTTON_HOME)
  /\ id' = NoBytes
  /\ werr' = 0
  /\ reads' = 0
  /\ pc' = "loop"
  /\ UNCHANGED << usb, bus, avail, data, err, start, led, slept, cycle,
                  writes, updates, fails, err1, err2,
                  took >>

\* getControllerId(): the print loop over id, then return; setup() returns
IdPrint ==
  /\ pc = "id_print"
  /\ id' = NoBytes
  /\ werr' = 0
  /\ reads' = 0
  /\ pc' = "loop"
  /\ UNCHANGED << gamepad, usb, bus, avail, data, err, start, led, slept, cycle,
                  writes, updates, fails, err1, err2,
                  took >>

(***************************************************************************)
(* loop()                                                                  *)
(***************************************************************************)
\* loop() up to the request of i2cRead(DATA_ADDRESS, DATA_LEN, &data): start is
\* read from millis(), data is declared without a value, the register pointer
\* is written; when that fails getControllerData returns the status
LoopRead ==
  /\ pc = "loop"
  /\ cycle < MaxCycles
  /\ cycle' = cycle + 1
  /\ writes' = 0
  /\ updates' = 0
  /\ \E t \in StartTimes : start' = t
  /\ \E garbage \in Reports : data' = garbage
  /\ \E st \in Status :
       /\ bus' = bus \o getControllerDataTx(st)
       /\ werr' = st
       /\ reads' = 0
       /\ IF st # 0
            THEN /\ err' = st
                 /\ pc' = "loop_write"
                 /\ UNCHANGED avail
            ELSE /\ \E n \in AvailAfterRequest(DATA_LEN) : avail' = n
                 /\ pc' = "loop_wait"
                 /\ UNCHANGED err
  /\ UNCHANGED << gamepad, usb, id, led, slept, fails, err1, err2, took >>

\* an i2cRead that gives up the wait and returns the status "other error"
LoopWait_timeout ==
  /\ pc = "loop_wait"
  /\ avail < DATA_LEN
  /\ err' = 4
  /\ pc' = "loop_write"
  /\ UNCHANGED << gamepad, usb, bus, avail, id, data, start, led, slept, cycle,
                  writes, updates, fails, err1, err2, werr, reads, took >>

\* i2cRead: while (Wire.available() < len) delay(1);
LoopWait ==
  /\ pc = "loop_wait"
  /\ avail < DATA_LEN
  /\ UNCHANGED vars

\* i2cRead: Wire.readBytes(result, len); return 0;
LoopReadBytes ==
  /\ pc = "loop_wait"
  /\ avail >= DATA_LEN
  /\ \E report \in Reports : data' = report
  /\ avail' = avail - DATA_LEN
  /\ reads' = reads + 1
  /\ err' = 0
  /\ pc' = "loop_update"
  /\ UNCHANGED << gamepad, usb, bus, id, start, led, slept, cycle, writes,
                  updates, fails, err1, err2, werr, took >>

\* an updateGamepad whose releaseAll sends the released state to the host
LoopUpdate_writeFirst ==
  /\ pc = "loop_update"
  /\ err = 0
  /\ usb' = LastTwo(Append(usb, releaseAll(gamepad)))
  /\ writes' = writes + 1
  /\ gamepad' = updateGamepad(gamepad, data)
  /\ updates' = updates + 1
  /\ pc' = "loop_write"
  /\ UNCHANGED << bus, avail, id, data, err, start, led, slept, cycle,
                  fails, err1, err2, werr, reads, took >>

\* if (err == 0) updateGamepad(data);
LoopUpdate ==
  /\ pc = "loop_update"
  /\ err = 0
  /\ gamepad' = updateGamepad(gamepad, data)
  /\ updates' = updates + 1
  /\ pc' = "loop_write"
  /\ UNCHANGED << usb, bus, avail, id, data, err, start, led, slept, cycle,
                  writes, fails, err1, err2, werr, reads, took >>

\* a loop() that sends a report only after a successful read
LoopWrite_onSuccess ==
  /\ pc = "loop_write"
  /\ usb' = IF err = 0 THEN LastTwo(Append(usb, gamepad)) ELSE usb
  /\ writes' = IF err = 0 THEN writes + 1 ELSE writes
  /\ pc' = "loop_pace"
  /\ UNCHANGED << gamepad, bus, avail, id, data, err, start, led, slept, cycle,
                  updates, fails, err1, err2, werr, reads, took >>

\* a loop() that decodes the report buffer before the write also when the
\* read failed
LoopWrite_decodeAlways ==
  /\ pc = "loop_write"
  /\ gamepad' = IF err # 0 THEN updateGamepad(gamepad, data) ELSE gamepad
  /\ usb' = LastTwo(Append(usb, gamepad'))
  /\ writes' = writes + 1
  /\ pc' = "loop_pace"
  /\ UNCHANGED << bus, avail, id, data, err, start, led, slept, cycle,
                  updates, fails, err1, err2, werr, reads, took >>

\* Gamepad.write();
LoopWrite ==
  /\ pc = "loop_write"
  /\ usb' = LastTwo(Append(usb, gamepad))
  /\ writes' = writes + 1
  /\ pc' = "loop_pace"
  /\ UNCHANGED << gamepad, bus, avail, id, data, err, start, led, slept, cycle,
                  updates, fails, err1, err2, werr, reads, took >>

\* the rest of loop(): duration, the led, the pacing delay; loop() returns and
\* its locals go out of scope
LoopPace ==
  /\ pc = "loop_pace"
  /\ \E e \in Elapsed :
       LET now == AddULong(start, ULong(e))
           duration == SubULong(now, start)
           shouldSleep == LessULong(duration, ULong(POLL_INTERVAL_MS))
       IN  /\ led' = ~shouldSleep
           /\ slept' = IF shouldSleep
                         THEN SubULong(ULong(POLL_INTERVAL_MS), duration)
                         ELSE ULong(0)
           /\ took' = [start |-> start, ms |-> e]
  /\ fails' = IF err # 0 THEN fails + 1 ELSE 0
  /\ data' = NoBytes
  /\ err' = 0
  /\ werr' = 0
  /\ reads' = 0
  /\ start' = ULong(0)
  /\ pc' = "loop"
  /\ UNCHANGED << gamepad, usb, bus, avail, id, cycle, writes, updates, err1,
                  err2 >>

Next ==
  \/ SetupBegin
  \/ InitWrite1
  \/ InitWrite2
  \/ InitPrint
  \/ IdPointerWrite
  \/ IdWait
  \/ IdReadBytes
  \/ IdPrint
  \/ LoopRead
  \/ LoopWait
  \/ LoopReadBytes
  \/ LoopUpdate
  \/ LoopWrite
  \/ LoopPace

Spec == Init /\ [][Next]_vars

(***************************************************************************)
(* Decoding of arbitrary reports.  The system specification draws its      *)
(* reports from the few in Reports.  The specifications below start in the *)
(* first execution of loop(), after a setup() without transport error, at  *)
(* the point where i2cRead has returned 0 with a report in data, and run   *)
(* updateGamepad on it.                                                    *)
(***************************************************************************)
\* every value of bytes 4 and 5 (buttons and dpad) over one set of analog bytes
ButtonInputs ==
  { << MixReport[1], MixReport[2], MixReport[3], MixReport[4], b4, b5 >> :
      b4 \in 0 .. 255, b5 \in 0 .. 255 }

\* every value of each of bytes 0 to 3 over the reports of Reports, and every
\* combination of the fragments of the two split fields over them
AnalogInputs ==
  { [r EXCEPT ![k] = v] : r \in Reports, k \in 1 .. 4, v \in 0 .. 255 }
  \cup
  { << x1 * 64 + (r[1] % 64), x2 * 64 + (r[2] % 64),
       x3 * 128 + t1 * 32 + (r[3] % 32), t2 * 32 + (r[4] % 32), r[5], r[6] >> :
      r \in Reports, x1 \in 0 .. 3, x2 \in 0 .. 3, x3 \in 0 .. 1,
      t1 \in 0 .. 3, t2 \in 0 .. 7 }

\* the bus log after a setup() and the read of the first cycle, all successful
FirstReadBus ==
  << WriteTx(INIT_DATA_1), WriteTx(INIT_DATA_2),
     WriteTx(<<ID_ADDRESS>>), RequestTx(ID_LEN),
     WriteTx(<<DATA_ADDRESS>>), RequestTx(DATA_LEN) >>

\* the state in which getControllerData has just returned 0 with `report`
AfterFirstRead(report) ==
  /\ pc = "loop_update"
  /\ gamepad = GamepadZero
  /\ usb = <<GamepadZero>>
  /\ bus = FirstReadBus
  /\ avail = 0
  /\ id = NoBytes
  /\ data = report
  /\ err = 0
  /\ start \in StartTimes
  /\ led = FALSE
  /\ slept = ULong(0)
  /\ cycle = 1
  /\ writes = 0
  /\ updates = 0
  /\ fails = 0
  /\ err1 = 0
  /\ err2 = 0
  /\ werr = 0
  /\ reads = 1
  /\ took = [start |-> ULong(0), ms |-> 0]

InitButtons == \E report \in ButtonInputs : AfterFirstRead(report)

InitAnalog == \E report \in AnalogInputs : AfterFirstRead(report)

NextDecode == LoopUpdate

SpecButtons == InitButtons /\ [][NextDecode]_vars

SpecAnalog == InitAnalog /\ [][NextDecode]_vars

(***************************************************************************)
(* Properties.                                                             *)
(***************************************************************************)
\* positions of loop()
LoopPcs == {"loop", "loop_wait", "loop_update", "loop_write", "loop_pace"}

\* a cycle has run up to its pacing step after a failed read
FailedCycleDone == pc = "loop_pace" /\ err # 0

\* a cycle has run up to its pacing step after a successful read
GoodCycleDone == pc = "loop_pace" /\ err = 0

\* the report last handed to the USB host
LastSent == usb[Len(usb)]

\* where the report layout holds each button's active-low bit:
\* ButtonBit[b] = <<index of the byte in the report sequence, bit number>>
ButtonBit ==
  << <<6, 4>>,   \* A
     <<6, 6>>,   \* B
     <<6, 3>>,   \* X
     <<6, 5>>,   \* Y
     <<5, 2>>,   \* +
     <<5, 3>>,   \* Home
     <<5, 4>>,   \* -
     <<5, 5>>,   \* L
     <<5, 1>>,   \* R
     <<6, 7>>,   \* ZL
     <<6, 2>> >> \* ZR

\* the buttons whose raw bit is 0 in report d
RawPressed(d) ==
  { b \in 1 .. 11 : (d[ButtonBit[b][1]] \div (2 ^ ButtonBit[b][2])) % 2 = 0 }

C2_StillPollingAfterFailures ==
  /\ cycle > 0 => pc \in LoopPcs
  /\ Cardinality({ i \in DOMAIN bus :
                     bus[i] = [op |-> "write", addr |-> 82, bytes |-> <<0>>] })
       = cycle
  /\ \A i, j \in DOMAIN bus :
       (i < j /\ bus[i] = [op |-> "write", addr |-> 82, bytes |-> <<0>>]) =>
         bus[j] \in { [op |-> "write", addr |-> 82, bytes |-> <<0>>],
                      [op |-> "request", addr |-> 82, len |-> 6] }
  /\ (GoodCycleDone /\ fails > 0) =>
       /\ writes = 1
       /\ updates = 1
       /\ LastSent = updateGamepad(GamepadZero, data)

\* two failed cycles, then a cycle that reads, decodes and sends a report
C2_Witness ==
  /\ GoodCycleDone
  /\ fails >= 2
  /\ writes = 1
  /\ LastSent.buttons # {}

\* C3: the buttons pressed in the report sent by a successful cycle are
\* exactly the buttons whose raw bit is 0 in that cycle's report, whatever
\* was reported before.
C3_ReleaseAllThenAssert ==
  /\ (pc = "loop_write" /\ updates = 1) => gamepad.buttons = RawPressed(data)
  /\ GoodCycleDone => LastSent.buttons = RawPressed(data)

\* a successful cycle with no button pressed, then one with all 11 pressed
C3_Witness ==
  /\ GoodCycleDone
  /\ cycle >= 2
  /\ fails = 0
  /\ Len(usb) = 2
  /\ usb[1].buttons = {}
  /\ Cardinality(usb[2].buttons) = 11
  /\ RawPressed(data) = 1 .. 11

\* C10: the whole gamepad state sent by a successful cycle is determined by
\* that cycle's report alone: it is what updateGamepad makes of the report
\* on a cleared Gamepad, whatever reports and failed cycles came before.
C10_OutputFunctionOfReport ==
  GoodCycleDone =>
    /\ gamepad = updateGamepad(GamepadZero, data)
    /\ LastSent = gamepad

\* the same report in two successive successful cycles, after another one,
\* gives the same output twice
C10_Witness ==
  /\ GoodCycleDone
  /\ cycle = 3
  /\ fails = 0
  /\ data = MixReport
  /\ Len(usb) = 2
  /\ usb[1] = usb[2]
  /\ usb[2] = updateGamepad(GamepadZero, MixReport)

\* updateGamepad has run on the report in data
Decoded == pc = "loop_write" /\ updates = 1

\* bit k of byte d[i] of a report
RawBit(d, i, k) == (d[i] \div (2 ^ k)) % 2

\* report d with bit k of byte d[i] inverted
FlipBit(d, i, k) ==
  [d EXCEPT ![i] = IF RawBit(d, i, k) = 1 THEN @ - 2 ^ k ELSE @ + 2 ^ k]

\* C4: each of the 11 buttons is pressed in the output if and only if its own
\* raw bit is 0, for every value of bytes 4 and 5; inverting one bit of these
\* bytes changes the output button of that bit and no other button (none
\* when the bit is a dpad bit or the reserved bit); the 11 button ids are
\* pairwise distinct.
C4_ButtonIffRawBitZero ==
  /\ Cardinality({ BUTTON_A, BUTTON_B, BUTTON_X, BUTTON_Y, BUTTON_PLUS,
                   BUTTON_HOME, BUTTON_MINUS, BUTTON_LEFT_TRIGGER,
                   BUTTON_RIGHT_TRIGGER, BUTTON_ZL, BUTTON_ZR }) = 11
  /\ Decoded =>
       /\ \A b \in 1 .. 11 :
            (b \in gamepad.buttons) <=>
               (RawBit(data, ButtonBit[b][1], ButtonBit[b][2]) = 0)
       /\ gamepad.buttons \subseteq 1 .. 11
       /\ \A i \in 5 .. 6, k \in 0 .. 7 :
            LET other == pressButtons(GamepadZero, FlipBit(data, i, k)).buttons
            IN  (other \ gamepad.buttons) \cup (gamepad.buttons \ other)
                  = { b \in 1 .. 11 : ButtonBit[b] = <<i, k>> }

\* only the raw bit of A is 0 and only button 1 is pressed
C4_Witness ==
  /\ Decoded
  /\ data[5] = 255
  /\ data[6] = 239
  /\ gamepad.buttons = {BUTTON_A}

\* the dpad buttons held down in report d (1 = pressed), from the raw bits
PadUp(d) == 1 - RawBit(d, 6, 0)
PadLeft(d) == 1 - RawBit(d, 6, 1)
PadDown(d) == 1 - RawBit(d, 5, 6)
PadRight(d) == 1 - RawBit(d, 5, 7)

\* report d holds an opposing pair: up+down or left+right
Opposing(d) ==
  (PadUp(d) = 1 /\ PadDown(d) = 1) \/ (PadLeft(d) = 1 /\ PadRight(d) = 1)

\* the compass direction of a combination without an opposing pair
Compass(u, r, dn, l) ==
  CASE u = 0 /\ r = 0 /\ dn = 0 /\ l = 0 -> GAMEPAD_DPAD_CENTERED
    [] u = 1 /\ r = 0 /\ dn = 0 /\ l = 0 -> GAMEPAD_DPAD_UP
    [] u = 1 /\ r = 1 /\ dn = 0 /\ l = 0 -> GAMEPAD_DPAD_UP_RIGHT
    [] u = 0 /\ r = 1 /\ dn = 0 /\ l = 0 -> GAMEPAD_DPAD_RIGHT
    [] u = 0 /\ r = 1 /\ dn = 1 /\ l = 0 -> GAMEPAD_DPAD_DOWN_RIGHT
    [] u = 0 /\ r = 0 /\ dn = 1 /\ l = 0 -> GAMEPAD_DPAD_DOWN
    [] u = 0 /\ r = 0 /\ dn = 1 /\ l = 1 -> GAMEPAD_DPAD_DOWN_LEFT
    [] u = 0 /\ r = 0 /\ dn = 0 /\ l = 1 -> GAMEPAD_DPAD_LEFT
    [] u = 1 /\ r = 0 /\ dn = 0 /\ l = 1 -> GAMEPAD_DPAD_UP_LEFT

\* C5: getDpadValue's index is (left<<3)|(up<<2)|(right<<1)|down with
\* 1 = pressed and lies in 0..15; the table gives one of the 9 directional
\* values; a combination without an opposing pair gives its own compass
\* direction (centered for none), up+down alone gives up or down, left+right
\* alone gives left or right, all four give centered.
C5_DpadIndexAndTable ==
  Decoded =>
    LET u == PadUp(data)
        r == PadRight(data)
        dn == PadDown(data)
        l == PadLeft(data)
    IN  /\ dpad_index(data) = l * 8 + u * 4 + r * 2 + dn
        /\ dpad_index(data) \in 0 .. 15
        /\ gamepad.dPad1 \in 0 .. 8
        /\ ~Opposing(data) => gamepad.dPad1 = Compass(u, r, dn, l)
        /\ (u = 1 /\ dn = 1 /\ l = 0 /\ r = 0) =>
             gamepad.dPad1 \in {GAMEPAD_DPAD_UP, GAMEPAD_DPAD_DOWN}
        /\ (l = 1 /\ r = 1 /\ u = 0 /\ dn = 0) =>
             gamepad.dPad1 \in {GAMEPAD_DPAD_LEFT, GAMEPAD_DPAD_RIGHT}
        /\ (u = 1 /\ dn = 1 /\ l = 1 /\ r = 1) =>
             gamepad.dPad1 = GAMEPAD_DPAD_CENTERED

\* up and down alone are held and the dpad reads down
C5_Witness ==
  /\ Decoded
  /\ PadUp(data) = 1 /\ PadDown(data) = 1
  /\ PadLeft(data) = 0 /\ PadRight(data) = 0
  /\ dpad_index(data) = 5
  /\ gamepad.dPad1 = GAMEPAD_DPAD_DOWN

\* the 16 combinations of the dpad bits, no other button pressed
DpadReports ==
  { << 0, 0, 0, 0, 63 + 64 * a + 128 * b, 252 + c + 2 * e >> :
      a \in 0 .. 1, b \in 0 .. 1, c \in 0 .. 1, e \in 0 .. 1 }

\* the table indexes of the combinations with and without an opposing pair
ImpossibleIndexes == { dpad_index(d) : d \in { x \in DpadReports : Opposing(x) } }
PossibleIndexes == { dpad_index(d) : d \in { x \in DpadReports : ~Opposing(x) } }

\* C6 as stated: exactly 6 of the 16 combinations are impossible (hold
\* up+down or left+right) and the other 10 are valid.
C6_SixImpossible ==
  Decoded =>
    /\ Cardinality(ImpossibleIndexes) = 6
    /\ Cardinality(PossibleIndexes) = 10

\* the fallback DPAD_MAPPINGS documents for each impossible combination
Fallback(u, r, dn, l) ==
  CASE u = 1 /\ r = 0 /\ dn = 1 /\ l = 0 -> GAMEPAD_DPAD_DOWN
    [] u = 1 /\ r = 1 /\ dn = 1 /\ l = 0 -> GAMEPAD_DPAD_RIGHT
    [] u = 0 /\ r = 1 /\ dn = 0 /\ l = 1 -> GAMEPAD_DPAD_RIGHT
    [] u = 0 /\ r = 1 /\ dn = 1 /\ l = 1 -> GAMEPAD_DPAD_DOWN
    [] u = 1 /\ r = 0 /\ dn = 1 /\ l = 1 -> GAMEPAD_DPAD_LEFT
    [] u = 1 /\ r = 1 /\ dn = 0 /\ l = 1 -> GAMEPAD_DPAD_UP
    [] u = 1 /\ r = 1 /\ dn = 1 /\ l = 1 -> GAMEPAD_DPAD_CENTERED

\* C6, amended: exactly 7 of the 16 combinations are impossible (hold up+down
\* or left+right), the table maps each of those 7 to its fallback direction,
\* and the remaining 9 are the valid combinations.
C6_SevenImpossible ==
  Decoded =>
    /\ Cardinality(ImpossibleIndexes) = 7
    /\ Cardinality(PossibleIndexes) = 9
    /\ ImpossibleIndexes \cap PossibleIndexes = {}
    /\ ImpossibleIndexes \cup PossibleIndexes = 0 .. 15
    /\ Opposing(data) =>
         gamepad.dPad1 =
           Fallback(PadUp(data), PadRight(data), PadDown(data), PadLeft(data))

\* left, right and down are held and the dpad falls back to down
C6_Witness ==
  /\ Decoded
  /\ PadUp(data) = 0 /\ PadDown(data) = 1
  /\ PadLeft(data) = 1 /\ PadRight(data) = 1
  /\ gamepad.dPad1 = GAMEPAD_DPAD_DOWN

\* the two fragments of the left trigger, from the raw bits
LeftTrigger2Bits(d) == (d[3] \div 32) % 4
LeftTrigger3Bits(d) == (d[4] \div 32) % 8

\* the left trigger values of every combination of the two fragments
LeftTriggerValues ==
  { getLeftTrigger(<<0, 0, 32 * a, 32 * b, 255, 255>>) : a \in 0 .. 3, b \in 0 .. 7 }

\* C7 as stated: left_trigger is (hi<<2)|lo with hi the 3-bit fragment and lo
\* the 2-bit fragment.
C7_ThreeBitHigh ==
  Decoded =>
    getLeftTrigger(data) = LeftTrigger3Bits(data) * 4 + LeftTrigger2Bits(data)

\* C7, amended: left_trigger is (hi<<3)|lo with hi the 2-bit fragment (bits
\* 6:5 of byte 2) and lo the 3-bit fragment (bits 7:5 of byte 3), so that
\* hi=10, lo=111 gives 23; the result is in 0..31 and every value 0..31 is
\* reached.
C7_TwoBitHigh ==
  Decoded =>
    /\ getLeftTrigger(data) = LeftTrigger2Bits(data) * 8 + LeftTrigger3Bits(data)
    /\ getLeftTrigger(data) \in 0 .. 31
    /\ gamepad.zAxis = 4 * (LeftTrigger2Bits(data) * 8 + LeftTrigger3Bits(data))
    /\ LeftTriggerValues = 0 .. 31

\* hi=10 and lo=111 are decoded to 23
C7_Witness ==
  /\ Decoded
  /\ LeftTrigger2Bits(data) = 2
  /\ LeftTrigger3Bits(data) = 7
  /\ getLeftTrigger(data) = 23
  /\ gamepad.zAxis = 92

\* the right stick x values of every combination of the three fragments
RightStickXValues ==
  { getRightStickX(<<64 * a, 64 * b, 128 * c, 0, 255, 255>>) :
      a \in 0 .. 3, b \in 0 .. 3, c \in 0 .. 1 }

\* C8: right_stick_x is (hi<<3)|(mid<<1)|lo with hi = bits 7:6 of byte 0,
\* mid = bits 7:6 of byte 1 and lo = bit 7 of byte 2; the fragments do not
\* overlap (the or of the shifted fragments is their sum), the result is in
\* 0..31 and every value 0..31 is reached.
C8_RightStickX ==
  Decoded =>
    LET hi == (data[1] \div 64) % 4
        mid == (data[2] \div 64) % 4
        lo == (data[3] \div 128) % 2
    IN  /\ getRightStickX(data) = hi * 8 + mid * 2 + lo
        /\ getRightStickX(data) \in 0 .. 31
        /\ gamepad.rxAxis = (hi * 8 + mid * 2 + lo - 16) * 2048
        /\ RightStickXValues = 0 .. 31

\* hi=11, mid=01 and lo=1 are decoded to 27
C8_Witness ==
  /\ Decoded
  /\ (data[1] \div 64) % 4 = 3
  /\ (data[2] \div 64) % 4 = 1
  /\ (data[3] \div 128) % 2 = 1
  /\ getRightStickX(data) = 27
  /\ gamepad.rxAxis = 22528

\* C9: the left stick axes are (v-32)<<10, the right stick axes (v-16)<<11
\* and the trigger axes v<<2, each without wraparound: the sticks within
\* -32768..32767, the triggers within 0..124; the scaling is strictly
\* increasing and maps the centre values 32 and 16 to 0.
C9_AxisScaling ==
  Decoded =>
    /\ gamepad.xAxis = (left_stick_x(data) - 32) * 1024
    /\ gamepad.yAxis = (left_stick_y(data) - 32) * 1024
    /\ gamepad.rxAxis = (getRightStickX(data) - 16) * 2048
    /\ gamepad.ryAxis = (right_stick_y(data) - 16) * 2048
    /\ gamepad.zAxis = getLeftTrigger(data) * 4
    /\ gamepad.rzAxis = right_trigger(data) * 4
    /\ \A a \in {gamepad.xAxis, gamepad.yAxis, gamepad.rxAxis, gamepad.ryAxis} :
         a \in -32768 .. 32767
    /\ \A a \in {gamepad.zAxis, gamepad.rzAxis} : a \in 0 .. 124
    /\ \A v \in 0 .. 62 : scaleLeftStick(v) < scaleLeftStick(v + 1)
    /\ \A v \in 0 .. 30 :
         /\ scaleRightStick(v) < scaleRightStick(v + 1)
         /\ ToInt8(scaleTrigger(v)) < ToInt8(scaleTrigger(v + 1))
    /\ scaleLeftStick(32) = 0
    /\ scaleRightStick(16) = 0

\* the smallest left stick x and the largest right trigger are scaled to the
\* ends of their ranges
C9_Witness ==
  /\ Decoded
  /\ left_stick_x(data) = 0
  /\ gamepad.xAxis = -32768
  /\ left_stick_y(data) = 63
  /\ gamepad.yAxis = 31744
  /\ right_trigger(data) = 31
  /\ gamepad.rzAxis = 124

(***************************************************************************)
(* Startup and the wait for data                                           *)
(***************************************************************************)
\* the processor always executes the next statement: every step that changes
\* the state is eventually taken; nothing makes the peripheral deliver bytes
FairSpec == Spec /\ WF_vars(Next)

\* the identification read waits for bytes that are not there
IdHung == pc = "id_wait" /\ avail < ID_LEN

\* the data read of a poll cycle waits for bytes that are not there
DataHung == pc = "loop_wait" /\ avail < DATA_LEN

\* the first poll cycle has written the data register pointer
FirstDataRead ==
  /\ cycle >= 1
  /\ \E i \in 1..Len(bus) : bus[i] = WriteTx(<< DATA_ADDRESS >>)

\* C11 as stated: whatever the init writes and the identification read do,
\* startup eventually performs the first data read
C11_StartupAlwaysPolls == <>FirstDataRead

\* C11 amended: startup performs the first data read unless the identification
\* read waits forever for its six bytes; once the identification read has
\* returned, with any status and any bytes, the first data read follows
C11_StartupPollsUnlessIdHangs ==
  /\ <>(IdHung \/ FirstDataRead)
  /\ (pc = "id_print") ~> FirstDataRead
  /\ [](FirstDataRead => pc \in LoopPcs)

\* C11 witness: the first data read is under way although the identification
\* read failed at its pointer write
C11_Witness ==
  /\ cycle = 1
  /\ pc \in {"loop_wait", "loop_write"}
  /\ Len(bus) >= 4
  /\ bus[3] = WriteTx(<< ID_ADDRESS >>)
  /\ bus[4] = WriteTx(<< DATA_ADDRESS >>)

\* the positions of the bus log that hold transaction tx
Positions(tx) == { i \in 1..Len(bus) : bus[i] = tx }

\* the program counters of setup() before initController() has finished
BeforeId == {"setup", "init1", "init2", "init_print"}

\* C12: the bus log starts with write F0 55, write FB 00, pointer write FA, in
\* that order; the second init write is on the bus whatever the first one
\* returned; each init write and the identification pointer write appear
\* exactly once; every data pointer write comes after these three
C12_StartupOrder ==
  /\ pc \in {"setup", "init1"} => bus = << >>
  /\ pc = "init2" => bus = << WriteTx(INIT_DATA_1) >>
  /\ pc \in {"init_print", "id_ptr"} =>
       bus = << WriteTx(INIT_DATA_1), WriteTx(INIT_DATA_2) >>
  /\ pc \notin BeforeId \cup {"id_ptr"} =>
       /\ Len(bus) >= 3
       /\ SubSeq(bus, 1, 3) = << WriteTx(INIT_DATA_1), WriteTx(INIT_DATA_2),
                                 WriteTx(<< ID_ADDRESS >>) >>
  /\ pc \in {"id_wait", "id_print"} => Positions(WriteTx(<< DATA_ADDRESS >>)) = {}
  /\ Positions(WriteTx(INIT_DATA_1)) \subseteq {1}
  /\ Positions(WriteTx(INIT_DATA_2)) \subseteq {2}
  /\ Positions(WriteTx(<< ID_ADDRESS >>)) \subseteq {3}
  /\ \A i \in Positions(WriteTx(<< DATA_ADDRESS >>)) : i >= 4
  /\ \A i \in Positions(RequestTx(DATA_LEN)) :
       /\ i >= 4
       /\ bus[i - 1] \in {WriteTx(<< ID_ADDRESS >>), WriteTx(<< DATA_ADDRESS >>)}

\* C12 witness: the first init write returned a nonzero status and the second
\* init write is on the bus
C12_Witness ==
  /\ pc = "init_print"
  /\ err1 # 0
  /\ bus = << WriteTx(INIT_DATA_1), WriteTx(INIT_DATA_2) >>

(***************************************************************************)
(* The identification block                                                *)
(***************************************************************************)
\* everything the program holds outside the identification block
NonIdState ==
  << gamepad, usb, bus, avail, data, err, start, led, slept, cycle, writes,
     updates, fails >>

\* C13: the identification bytes exist only between the identification read
\* and the return of getControllerId; the step that receives them and the step
\* that consumes them change no bus transaction, no report and no gamepad
\* state, and the consuming step leaves the same state whatever the bytes were.
\* Two runs that differ only in these bytes are therefore in the same state
\* when polling starts, having put the same transactions on the bus
C13_IdBytesNotUsed ==
  /\ [](id # NoBytes => pc = "id_print")
  /\ [][(pc = "id_wait" /\ pc' = "id_print") =>
          (bus' = bus /\ usb' = usb /\ gamepad' = gamepad)]_vars
  /\ [][pc = "id_print" =>
          (pc' = "loop" /\ id' = NoBytes /\ NonIdState' = NonIdState)]_vars

\* C13 witness: six bytes matching no known pattern were read from the
\* controller, and the program is about to go on to polling
C13_Witness ==
  /\ pc = "id_print"
  /\ reads = 1
  /\ id \notin {VALID_ID_1, VALID_ID_2}
  /\ bus[Len(bus)] = RequestTx(ID_LEN)

\* i2cRead is in its wait loop with fewer bytes than it asked for
Hung == IdHung \/ DataHung

\* C14: i2cRead leaves its wait loop only with at least len bytes available,
\* and then holds exactly len bytes; while fewer are available no step changes
\* anything: the read does not return, the cycle does not complete and no
\* report is written, in getControllerId as in a poll cycle; the report of the
\* cycle that hangs has not been written
C14_NoTimeout ==
  /\ [][~Hung]_vars
  /\ [][(pc = "id_wait" /\ pc' # "id_wait") =>
          (avail >= ID_LEN /\ pc' = "id_print" /\ Len(id') = ID_LEN)]_vars
  /\ [][(pc = "loop_wait" /\ pc' # "loop_wait") =>
          (avail >= DATA_LEN /\ pc' = "loop_update" /\ err' = 0
             /\ Len(data') = DATA_LEN)]_vars
  /\ [](DataHung => writes = 0)
  /\ [](IdHung => (cycle = 0 /\ usb = << GamepadZero >>))

\* C14 witness: the second poll cycle waits for a report that never arrives,
\* after a first cycle that wrote its report
C14_Witness ==
  /\ DataHung
  /\ cycle = 2
  /\ Len(usb) = 2
  /\ bus[Len(bus)] = RequestTx(DATA_LEN)

(***************************************************************************)
(* i2cRead                                                                 *)
(***************************************************************************)
\* the bus log ends with the transactions of a failed i2cRead(address, ...):
\* the pointer write alone
EndsFailedRead(address) ==
  /\ Len(bus) >= 1
  /\ bus[Len(bus)] = WriteTx(<< address >>)

\* the bus log ends with the transactions of a successful i2cRead(address, len,
\* ...): the pointer write, then the request
EndsGoodRead(address, len) ==
  /\ Len(bus) >= 2
  /\ bus[Len(bus) - 1] = WriteTx(<< address >>)
  /\ bus[Len(bus)] = RequestTx(len)

\* C15: when i2cRead has returned, in getControllerId or in a poll cycle:
\* after a pointer write with a nonzero status the caller holds that status,
\* no request followed the write and readBytes was not called; after a
\* pointer write with status 0 the caller holds 0, the request followed the
\* write, and one readBytes call delivered exactly len bytes
C15_ReadPropagatesWriteStatus ==
  /\ pc = "id_print" =>
       IF werr # 0
         THEN EndsFailedRead(ID_ADDRESS) /\ reads = 0
         ELSE EndsGoodRead(ID_ADDRESS, ID_LEN) /\ reads = 1 /\ Len(id) = ID_LEN
  /\ pc \in {"id_wait", "loop_wait"} => (werr = 0 /\ reads = 0)
  /\ pc = "id_wait" => EndsGoodRead(ID_ADDRESS, ID_LEN)
  /\ pc = "loop_wait" => EndsGoodRead(DATA_ADDRESS, DATA_LEN)
  /\ pc \in {"loop_update", "loop_write", "loop_pace"} =>
       IF werr # 0
         THEN /\ err = werr
              /\ EndsFailedRead(DATA_ADDRESS)
              /\ reads = 0
         ELSE /\ err = 0
              /\ EndsGoodRead(DATA_ADDRESS, DATA_LEN)
              /\ reads = 1
              /\ Len(data) = DATA_LEN

\* C15 witness: the data pointer write returned 2 (address not acknowledged)
\* and the poll cycle holds that status, with nothing requested or read
C15_Witness ==
  /\ pc = "loop_write"
  /\ werr = 2
  /\ err = 2
  /\ reads = 0
  /\ EndsFailedRead(DATA_ADDRESS)

(***************************************************************************)
(* Pacing                                                                  *)
(***************************************************************************)
\* a poll cycle has been paced: took, led and slept are those of the cycle
\* paced last
Paced == cycle >= 2 \/ (cycle = 1 /\ pc = "loop")

\* C16: for the cycle paced last, which took took.ms milliseconds from its
\* start to the second millis() call: when that is below POLL_INTERVAL_MS the
\* delay is exactly the remainder and the led is off, otherwise there is no
\* delay and the led is on; led and delay are this function of the cycle's own
\* duration in every reachable state, whatever earlier cycles took and
\* whether or not millis() wrapped during the cycle
C16_Pacing ==
  Paced =>
    IF took.ms < POLL_INTERVAL_MS
      THEN slept = ULong(POLL_INTERVAL_MS - took.ms) /\ led = FALSE
      ELSE slept = ULong(0) /\ led = TRUE

\* millis() passed 2^32 between the start of the cycle and its end
Wrapped(t) == LessULong(AddULong(t.start, ULong(t.ms)), t.start)

\* C16 witness: the third cycle started 5 ms before millis() wrapped and took
\* 15 ms; it waited 1 ms with the led off
C16_Witness ==
  /\ pc = "loop"
  /\ cycle = 3
  /\ took.start = << 65535, 65531 >>
  /\ took.ms = 15
  /\ Wrapped(took)
  /\ slept = ULong(1)
  /\ led = FALSE

(***************************************************************************)
(* Failed and successful poll cycles                                       *)
(***************************************************************************)
\* C17: every step of a poll cycle whose read fails, from the call of
\* getControllerData to the return of loop(), leaves the gamepad state as it
\* was, never calls updateGamepad or readBytes, and adds nothing to the bus
\* but the one pointer write of the first step
C17_FailedCycleFrame ==
  [][(pc \in LoopPcs /\ (err # 0 \/ err' # 0)) =>
       /\ gamepad' = gamepad
       /\ updates' = 0
       /\ reads' = 0
       /\ bus' = IF pc = "loop"
                   THEN Append(bus, WriteTx(<< DATA_ADDRESS >>))
                   ELSE bus]_vars

\* C17 witness: a failed cycle is about to end; the gamepad still shows the
\* report of an earlier cycle while the report buffer holds other bytes, and
\* the bus log ends with the single pointer write
C17_Witness ==
  /\ FailedCycleDone
  /\ gamepad = updateGamepad(GamepadZero, MixReport)
  /\ data = AllReport
  /\ updates = 0
  /\ EndsFailedRead(DATA_ADDRESS)
  /\ bus[Len(bus) - 1] = RequestTx(DATA_LEN)

(***************************************************************************)
(* The contiguous analog fields                                            *)
(***************************************************************************)
\* the bits <<byte, bit>> of the report that hold each contiguous analog
\* field, bytes counted from 1
LeftStickXBits == { << 1, k >> : k \in 0 .. 5 }
LeftStickYBits == { << 2, k >> : k \in 0 .. 5 }
RightStickYBits == { << 3, k >> : k \in 0 .. 4 }
RightTriggerBits == { << 4, k >> : k \in 0 .. 4 }

\* every bit of a report
ReportBits == { << i, k >> : i \in 1 .. DATA_LEN, k \in 0 .. 7 }

\* the gamepad state after decoding the report with bit b inverted
DecodedFlipped(b) == updateGamepad(gamepad, FlipBit(data, b[1], b[2]))

\* C18: the four contiguous fields are the low 6, 6, 5 and 5 bits of bytes 0,
\* 1, 2 and 3, and these alone give the x, y, ry and rz axes; inverting a
\* bit of the report changes such an axis exactly when the bit lies in the
\* field of the axis; inverting a bit of bytes 4 and 5 changes no axis at all,
\* and inverting the reserved bit of byte 4 changes nothing of the output
C18_ContiguousFields ==
  Decoded =>
    /\ left_stick_x(data) = data[1] % 64
    /\ left_stick_y(data) = data[2] % 64
    /\ right_stick_y(data) = data[3] % 32
    /\ right_trigger(data) = data[4] % 32
    /\ gamepad.xAxis = ((data[1] % 64) - 32) * 1024
    /\ gamepad.yAxis = ((data[2] % 64) - 32) * 1024
    /\ gamepad.ryAxis = ((data[3] % 32) - 16) * 2048
    /\ gamepad.rzAxis = (data[4] % 32) * 4
    /\ \A b \in ReportBits :
         LET f == DecodedFlipped(b)
         IN  /\ (f.xAxis # gamepad.xAxis) <=> (b \in LeftStickXBits)
             /\ (f.yAxis # gamepad.yAxis) <=> (b \in LeftStickYBits)
             /\ (f.ryAxis # gamepad.ryAxis) <=> (b \in RightStickYBits)
             /\ (f.rzAxis # gamepad.rzAxis) <=> (b \in RightTriggerBits)
             /\ b[1] \in {5, 6} =>
                  (f.rxAxis = gamepad.rxAxis /\ f.zAxis = gamepad.zAxis)
    /\ DecodedFlipped(<< 5, 0 >>) = gamepad

\* C18 witness: byte 2 is all ones and the right stick y field is its low five
\* bits, 31, while the reserved bit of byte 4 is 0
C18_Witness ==
  /\ Decoded
  /\ data = [ZeroBytes EXCEPT ![3] = 255]
  /\ right_stick_y(data) = 31
  /\ gamepad.ryAxis = 30720

\* gamepad state g holds the dpad, the 11 buttons and the 6 axes of report d
\* and nothing else
Complete(g, d) ==
  /\ g.dPad1 = getDpadValue(d)
  /\ g.buttons = RawPressed(d)
  /\ g = setAxes([GamepadZero EXCEPT !.dPad1 = g.dPad1, !.buttons = g.buttons], d)

\* C19: in a poll cycle whose read succeeds no report is written before
\* updateGamepad has returned; the write happens once, when the gamepad state
\* holds the dpad, buttons and axes of this cycle's report, and the report
\* written is that state; every step that writes a report is the Gamepad.write
\* step of loop()
C19_OneCompleteReport ==
  /\ [](pc \in {"loop_wait", "loop_update"} => (writes = 0 /\ updates = 0))
  /\ []((pc = "loop_write" /\ err = 0) =>
          (writes = 0 /\ updates = 1 /\ Complete(gamepad, data)))
  /\ [](GoodCycleDone =>
          (writes = 1 /\ updates = 1 /\ Complete(LastSent, data)))
  /\ [][(pc \in LoopPcs /\ (writes' > writes \/ usb' # usb)) =>
          /\ pc = "loop_write"
          /\ writes' = writes + 1
          /\ usb' = LastTwo(Append(usb, gamepad))
          /\ err = 0 => Complete(gamepad, data)]_vars

\* C19 witness: the second cycle read a report with all 11 buttons pressed
\* after a first cycle with another report; it has written one report, the
\* complete new state, and the report before it is the complete old state
C19_Witness ==
  /\ GoodCycleDone
  /\ cycle = 2
  /\ data = AllReport
  /\ writes = 1
  /\ Len(usb) = 2
  /\ Complete(usb[1], MixReport)
  /\ Complete(usb[2], AllReport)
  /\ usb[1] # usb[2]

(***************************************************************************)
(* The gamepad state before the first successful read                      *)
(***************************************************************************)
\* no button pressed, the dpad centered, the six axes at 0
Neutral(g) ==
  /\ g.buttons = {}
  /\ g.dPad1 = GAMEPAD_DPAD_CENTERED
  /\ g.xAxis = 0 /\ g.yAxis = 0
  /\ g.rxAxis = 0 /\ g.ryAxis = 0
  /\ g.zAxis = 0 /\ g.rzAxis = 0

\* the poll cycles that have returned
CyclesDone == IF pc = "loop" THEN cycle ELSE cycle - 1

\* updateGamepad has not been called yet: the program is in setup(), or every
\* poll cycle that has returned failed and the one running has not decoded
NoUpdateYet ==
  \/ pc \notin LoopPcs
  \/ fails = CyclesDone /\ (pc = "loop" \/ updates = 0)

\* C20: the gamepad state is cleared and the cleared report sent before the
\* first bus transaction; as long as updateGamepad has not been called, the
\* gamepad state and every report written are neutral, whatever the init
\* writes, the identification read and the poll reads returned
C20_NeutralUntilFirstSuccess ==
  /\ pc = "setup" => (bus = << >> /\ usb = << >>)
  /\ pc = "init1" => (bus = << >> /\ Neutral(gamepad) /\ usb = << GamepadZero >>)
  /\ NoUpdateYet =>
       /\ Neutral(gamepad)
       /\ \A i \in 1 .. Len(usb) : Neutral(usb[i])
  /\ (pc \in LoopPcs /\ ~NoUpdateYet) => \E i \in 1 .. Len(bus) :
       i > 4 /\ bus[i] = RequestTx(DATA_LEN)

\* C20 witness: the third poll cycle has failed like the two before it, with
\* bytes in the report buffer that would decode to 11 pressed buttons; the
\* gamepad state and the reports written are neutral
C20_Witness ==
  /\ FailedCycleDone
  /\ NoUpdateYet
  /\ cycle = 3
  /\ fails = 2
  /\ data = AllReport
  /\ ~Neutral(updateGamepad(gamepad, data))
  /\ Neutral(gamepad)
  /\ usb = << GamepadZero, GamepadZero >>

====
